---- MODULE Spec2Model ----
(***************************************************************************)
(* A model of the SumoLogic MCP server: the fourteen tool handlers of      *)
(* src/index.ts (the sumoLogicTools array) and of the server.tool          *)
(* registrations embedded in src/README.md, the error normalizer           *)
(* handleApiError, and the update_collector read-modify-write flow run     *)
(* against a remote collector guarded by an entity tag.                    *)
(*                                                                         *)
(* JavaScript values are records [t, s, n]: t is the type tag, s the       *)
(* string (or the object's identity), n the number.                        *)
(***************************************************************************)
EXTENDS Integers, Sequences, FiniteSets, TLC

\* Number of writes the remote collector accepts before the model stops
\* starting new writers (the entity tag is the count of accepted writes).
MaxVer == 2

VARIABLES
  impl,       \* which of the two implementations runs: "index" or "readme"
  inv,        \* per slot: the invocation in flight (a handler's locals and its log)
  remote,     \* the remote service's collector object
  ver,        \* the remote collector's entity tag: the number of accepted writes
  proc,       \* the process: "init", "serving" (connected) or "exited"
  boot,       \* how far startup got: tools registered, transport connected, exit code
  env,        \* process.env: the two credential variables (undefined when unset)
  norm,       \* a call of handleApiError on its own: its argument and what came of it
  failed      \* some invocation already answered has failed

vars == <<impl, inv, remote, ver, proc, boot, env, norm, failed>>

----------------------------------------------------------------------------
\* JavaScript values

U == [t |-> "undefined", s |-> "", n |-> 0]
Str(x) == [t |-> "string", s |-> x, n |-> 0]
Num(k) == [t |-> "number", s |-> "", n |-> k]
Obj(x) == [t |-> "object", s |-> x, n |-> 0]
Bool(b) == [t |-> "boolean", s |-> "", n |-> IF b THEN 1 ELSE 0]

\* ToBoolean: what `v || w` and `!v` test
Truthy(v) ==
  CASE v.t = "undefined" -> FALSE
    [] v.t = "string" -> v.s # ""
    [] v.t \in {"number", "boolean"} -> v.n # 0
    [] OTHER -> TRUE

\* a || b
OrElse(a, b) == IF Truthy(a) THEN a ELSE b

\* `${v}` inside a template literal
TemplateString(v) ==
  CASE v.t = "undefined" -> "undefined"
    [] v.t = "string" -> v.s
    [] OTHER -> "[object Object]"

----------------------------------------------------------------------------
\* The tools and their declared parameters

Impls == {"index", "readme"}

Tools ==
  {"check_connection", "list_collectors", "get_collector",
   "create_hosted_collector", "update_collector", "delete_collector",
   "list_sources", "get_source", "create_http_source", "start_search_job",
   "check_search_job_status", "get_search_job_results", "list_monitors",
   "get_monitor"}

ParamNames ==
  {"collector_id", "source_id", "job_id", "monitor_id", "name", "description",
   "category", "fields", "query", "from_time", "to_time", "time_zone",
   "limit", "offset"}

\* the declarations with get_collector's collector_id left optional
RequiredParamsLax(t) ==
  CASE t \in {"update_collector", "delete_collector", "list_sources"} -> {"collector_id"}
    [] t = "get_source" -> {"collector_id", "source_id"}
    [] t = "create_hosted_collector" -> {"name"}
    [] t = "create_http_source" -> {"collector_id", "name"}
    [] t = "start_search_job" -> {"query", "from_time", "to_time"}
    [] t \in {"check_search_job_status", "get_search_job_results"} -> {"job_id"}
    [] t = "get_monitor" -> {"monitor_id"}
    [] OTHER -> {}

\* README.md: the parameters declared without .optional()
RequiredParamsReadme(t) ==
  CASE t \in {"get_collector", "update_collector", "delete_collector", "list_sources"}
         -> {"collector_id"}
    [] t = "create_hosted_collector" -> {"name"}
    [] t = "get_source" -> {"collector_id", "source_id"}
    [] t = "create_http_source" -> {"collector_id", "name"}
    [] t = "start_search_job" -> {"query", "from_time", "to_time"}
    [] t = "check_search_job_status" -> {"job_id"}
    [] t = "get_search_job_results" -> {"job_id"}
    [] t = "get_monitor" -> {"monitor_id"}
    [] OTHER -> {}

\* index.ts: the parameters declared with required: true
RequiredParams(t) ==
  CASE t \in {"get_collector", "update_collector", "delete_collector", "list_sources"}
         -> {"collector_id"}
    [] t = "get_source" -> {"collector_id", "source_id"}
    [] t = "create_hosted_collector" -> {"name"}
    [] t = "create_http_source" -> {"collector_id", "name"}
    [] t = "start_search_job" -> {"query", "from_time", "to_time"}
    [] t \in {"check_search_job_status", "get_search_job_results"} -> {"job_id"}
    [] t = "get_monitor" -> {"monitor_id"}
    [] OTHER -> {}

\* parameters declared with required: false / .optional()
OptionalParams(t) ==
  CASE t \in {"create_hosted_collector", "update_collector", "create_http_source"}
         -> {"description", "category", "fields"}
              \cup (IF t = "update_collector" THEN {"name"} ELSE {})
    [] t = "start_search_job" -> {"time_zone"}
    [] t = "get_search_job_results" -> {"limit", "offset"}
    [] OTHER -> {}

DeclaredParams(t) == RequiredParams(t) \cup OptionalParams(t)

----------------------------------------------------------------------------
\* Requests handed to the axios client (sumoLogicClient)

Digit(d) ==
  CASE d = 0 -> "0" [] d = 1 -> "1" [] d = 2 -> "2" [] d = 3 -> "3"
    [] d = 4 -> "4" [] d = 5 -> "5" [] d = 6 -> "6" [] d = 7 -> "7"
    [] d = 8 -> "8" [] OTHER -> "9"

\* Number.prototype.toString() of a natural number: its decimal digits
RECURSIVE Digits(_)
Digits(k) == IF k < 10 THEN <<Digit(k)>> ELSE Append(Digits(k \div 10), Digit(k % 10))

NumberToString(v) == Digits(v.n)

NoObj == [none |-> U]
NoQuery == [hasLimit |-> FALSE, limit |-> <<>>, hasOffset |-> FALSE, offset |-> <<>>]

Req(m, path) ==
  [method |-> m, path |-> path, hasBody |-> FALSE, wrap |-> "", obj |-> NoObj,
   hasIfMatch |-> FALSE, ifMatch |-> 0, query |-> NoQuery]

ReqBody(m, path, wrap, obj) == [Req(m, path) EXCEPT !.hasBody = TRUE, !.wrap = wrap, !.obj = obj]

\* a query that leaves out a parameter whose value is false-y
SearchResultsQueryTruthy(p) ==
  [hasLimit |-> Truthy(p["limit"]),
   limit |-> IF Truthy(p["limit"]) THEN NumberToString(p["limit"]) ELSE <<>>,
   hasOffset |-> Truthy(p["offset"]),
   offset |-> IF Truthy(p["offset"]) THEN NumberToString(p["offset"]) ELSE <<>>]

\* get_search_job_results: params.limit / params.offset are set only when !== undefined
SearchResultsQuery(p) ==
  [hasLimit |-> p["limit"].t # "undefined",
   limit |-> IF p["limit"].t # "undefined" THEN NumberToString(p["limit"]) ELSE <<>>,
   hasOffset |-> p["offset"].t # "undefined",
   offset |-> IF p["offset"].t # "undefined" THEN NumberToString(p["offset"]) ELSE <<>>]

CollectorPath(p) == <<"v1", "collectors", TemplateString(p["collector_id"])>>

\* a body that fills the optional members in with empty strings
HostedCollectorDataDefaults(p) ==
  [collectorType |-> Str("Hosted"), name |-> p["name"],
   description |-> OrElse(p["description"], Str("")),
   category |-> OrElse(p["category"], Str("")), fields |-> p["fields"]]

\* create_hosted_collector: collectorData.collector
HostedCollectorData(p) ==
  [collectorType |-> Str("Hosted"), name |-> p["name"],
   description |-> p["description"], category |-> p["category"],
   fields |-> p["fields"]]

\* the first (for all but update_collector: the only) request of tool t
FirstRequest(t, p) ==
  CASE t \in {"check_connection", "list_collectors"} -> Req("GET", <<"v1", "collectors">>)
    [] t \in {"get_collector", "update_collector"} -> Req("GET", CollectorPath(p))
    [] t = "create_hosted_collector" ->
         ReqBody("POST", <<"v1", "collectors">>, "collector", HostedCollectorData(p))
    [] t = "delete_collector" -> Req("DELETE", CollectorPath(p))
    [] t = "list_sources" -> Req("GET", CollectorPath(p) \o <<"sources">>)
    [] t = "get_source" ->
         Req("GET", CollectorPath(p) \o <<"sources", TemplateString(p["source_id"])>>)
    [] t = "create_http_source" ->
         ReqBody("POST", CollectorPath(p) \o <<"sources">>, "source",
                 [sourceType |-> Str("HTTP"), name |-> p["name"],
                  description |-> p["description"], category |-> p["category"],
                  fields |-> p["fields"], messagePerRequest |-> Bool(FALSE)])
    [] t = "start_search_job" ->
         ReqBody("POST", <<"v1", "search", "jobs">>, "",
                 [query |-> p["query"], from |-> p["from_time"], to |-> p["to_time"],
                  timeZone |-> OrElse(p["time_zone"], Str("UTC"))])
    [] t = "check_search_job_status" ->
         Req("GET", <<"v1", "search", "jobs", TemplateString(p["job_id"])>>)
    [] t = "get_search_job_results" ->
         [Req("GET", <<"v1", "search", "jobs", TemplateString(p["job_id"]), "messages">>)
            EXCEPT !.query = SearchResultsQuery(p)]
    [] t = "list_monitors" -> Req("GET", <<"v1", "monitors">>)
    [] OTHER -> Req("GET", <<"v1", "monitors", TemplateString(p["monitor_id"])>>)

\* README.md: the first request of tool t
FirstRequestReadme(t, p) ==
  CASE t = "check_connection" -> Req("GET", <<"v1", "collectors">>)
    [] t = "list_collectors" -> Req("GET", <<"v1", "collectors">>)
    [] t = "get_collector" -> Req("GET", <<"v1", "collectors", TemplateString(p["collector_id"])>>)
    [] t = "create_hosted_collector" ->
         ReqBody("POST", <<"v1", "collectors">>, "collector",
                 [collectorType |-> Str("Hosted"), name |-> p["name"],
                  description |-> p["description"], category |-> p["category"],
                  fields |-> p["fields"]])
    [] t = "update_collector" ->
         Req("GET", <<"v1", "collectors", TemplateString(p["collector_id"])>>)
    [] t = "delete_collector" ->
         Req("DELETE", <<"v1", "collectors", TemplateString(p["collector_id"])>>)
    [] t = "list_sources" ->
         Req("GET", <<"v1", "collectors", TemplateString(p["collector_id"]), "sources">>)
    [] t = "get_source" ->
         Req("GET", <<"v1", "collectors", TemplateString(p["collector_id"]), "sources",
                      TemplateString(p["source_id"])>>)
    [] t = "create_http_source" ->
         ReqBody("POST", <<"v1", "collectors", TemplateString(p["collector_id"]), "sources">>,
                 "source",
                 [sourceType |-> Str("HTTP"), name |-> p["name"],
                  description |-> p["description"], category |-> p["category"],
                  fields |-> p["fields"], messagePerRequest |-> Bool(FALSE)])
    [] t = "start_search_job" ->
         ReqBody("POST", <<"v1", "search", "jobs">>, "",
                 [query |-> p["query"], from |-> p["from_time"], to |-> p["to_time"],
                  timeZone |-> IF Truthy(p["time_zone"]) THEN p["time_zone"] ELSE Str("UTC")])
    [] t = "check_search_job_status" ->
         Req("GET", <<"v1", "search", "jobs", TemplateString(p["job_id"])>>)
    [] t = "get_search_job_results" ->
         [Req("GET", <<"v1", "search", "jobs", TemplateString(p["job_id"]), "messages">>)
            EXCEPT !.query =
              [hasLimit |-> p["limit"] # U,
               limit |-> IF p["limit"] # U THEN NumberToString(p["limit"]) ELSE <<>>,
               hasOffset |-> p["offset"] # U,
               offset |-> IF p["offset"] # U THEN NumberToString(p["offset"]) ELSE <<>>]]
    [] t = "list_monitors" -> Req("GET", <<"v1", "monitors">>)
    [] t = "get_monitor" -> Req("GET", <<"v1", "monitors", TemplateString(p["monitor_id"])>>)

----------------------------------------------------------------------------
\* update_collector: the merge and the conditional PUT

CollectorKeys == {"name", "description", "category", "fields"}

\* a merge that reads currentCollector.name whatever the caller supplied
MergeThrowsAlways(hasCur, p) == ~hasCur

\* Reading currentCollector.<key> throws a TypeError when currentCollector is
\* undefined; `a || b` and `c ? a : b` read it only when the left side does not decide.
MergeThrows(hasCur, p) ==
  /\ ~hasCur
  /\ \/ ~Truthy(p["name"])
     \/ p["description"].t = "undefined"
     \/ ~Truthy(p["category"])
     \/ ~Truthy(p["fields"])

Field(o, k) == IF k \in DOMAIN o THEN o[k] ELSE U

\* a merge that tests all four fields with !== undefined
MergeCollectorDefined(hasCur, cur, p) ==
  LET base == IF hasCur THEN cur ELSE [k \in CollectorKeys |-> U]
  IN [k \in DOMAIN base \cup CollectorKeys |->
        IF k \in CollectorKeys
          THEN IF p[k].t # "undefined" THEN p[k] ELSE Field(base, k)
          ELSE base[k]]

\* { ...currentCollector, name: name || currentCollector.name, ... }
MergeCollector(hasCur, cur, p) ==
  LET base == IF hasCur THEN cur ELSE [k \in CollectorKeys |-> U]
  IN [k \in DOMAIN base \cup CollectorKeys |->
        CASE k \in {"name", "category", "fields"} -> OrElse(p[k], Field(base, k))
          [] k = "description" ->
               IF p[k].t # "undefined" THEN p[k] ELSE Field(base, k)
          [] OTHER -> base[k]]

\* the value of the If-Match header: the etag of this invocation's own GET
IfMatchToken(s) == s.etag

PutRequest(s) ==
  [ReqBody("PUT", CollectorPath(s.params), "collector",
           MergeCollector(s.hasCur, s.cur, s.params))
     EXCEPT !.hasIfMatch = s.hasEtag, !.ifMatch = IfMatchToken(s)]

\* README.md: the merge reads currentCollector.<key> where the supplied value
\* does not decide; that read throws when the GET's body held no collector
MergeThrowsReadme(hasCur, p) ==
  IF hasCur THEN FALSE
  ELSE \E k \in CollectorKeys :
         IF k = "description" THEN p[k] = U ELSE ~Truthy(p[k])

\* README.md: { ...currentCollector, name: name || currentCollector.name, ... }
MergeCollectorReadme(hasCur, cur, p) ==
  LET spread == IF hasCur THEN cur ELSE <<>>
      read(k) == IF hasCur /\ k \in DOMAIN cur THEN cur[k] ELSE U
      own == [name |-> IF Truthy(p["name"]) THEN p["name"] ELSE read("name"),
              description |-> IF p["description"] # U THEN p["description"]
                              ELSE read("description"),
              category |-> IF Truthy(p["category"]) THEN p["category"] ELSE read("category"),
              fields |-> IF Truthy(p["fields"]) THEN p["fields"] ELSE read("fields")]
  IN [k \in DOMAIN spread \cup DOMAIN own |-> IF k \in DOMAIN own THEN own[k] ELSE spread[k]]

\* a PUT that leaves the If-Match header out
PutRequestReadmeUnconditional(s) ==
  ReqBody("PUT", <<"v1", "collectors", TemplateString(s.params["collector_id"])>>,
          "collector", MergeCollectorReadme(s.hasCur, s.cur, s.params))

\* README.md: sumoLogicClient.put(url, collectorData, {headers: {'If-Match': etag}})
PutRequestReadme(s) ==
  [ReqBody("PUT", <<"v1", "collectors", TemplateString(s.params["collector_id"])>>,
           "collector", MergeCollectorReadme(s.hasCur, s.cur, s.params))
     EXCEPT !.hasIfMatch = s.hasEtag, !.ifMatch = s.etag]

\* JSON.stringify drops the members whose value is undefined
Serialize(o) == [k \in {x \in DOMAIN o : o[x].t # "undefined"} |-> o[k]]

----------------------------------------------------------------------------
\* Responses and errors of the axios client

Payloads == {"P1", "P2"}
ErrorBodies == {"{error:not found}"}

NoResp == [kind |-> "none", status |-> 0, data |-> "", hasCollector |-> FALSE,
           collector |-> NoObj, hasEtag |-> FALSE, etag |-> 0]
OkResp(d) == [NoResp EXCEPT !.kind = "ok", !.status = 200, !.data = d]
HttpErrResp(st, d) == [NoResp EXCEPT !.kind = "http", !.status = st, !.data = d]
NetErrResp == [NoResp EXCEPT !.kind = "net"]

\* what `await sumoLogicClient.<method>(...)` rejects with
AxiosError(r) ==
  [cls |-> "AxiosError", hasResponse |-> r.kind = "http", status |-> r.status,
   data |-> r.data, hasMessage |-> TRUE,
   message |-> IF r.kind = "http" THEN "Request failed with status code" ELSE "Network Error"]

\* what reading a property of undefined throws
TypeError ==
  [cls |-> "TypeError", hasResponse |-> FALSE, status |-> 0, data |-> "",
   hasMessage |-> TRUE, message |-> "Cannot read properties of undefined"]

NoDiag == [fmt |-> "", status |-> 0, text |-> <<>>]

\* the value undefined as a caught error
NoErr == [cls |-> "undefined", hasResponse |-> FALSE, status |-> 0, data |-> "",
          hasMessage |-> FALSE, message |-> ""]

\* no call of the normalizer on its own is under way
NoCall == [pc |-> "none", err |-> NoErr, out |-> NoDiag]

\* JSON.stringify(error.response.data)
JsonStringify(d) == <<"JSON", d>>

\* the normalizer does not return: reading a property of undefined or null throws
Thrown == [fmt |-> "<TypeError thrown>", status |-> 0, text |-> <<>>]

\* `${error.message}`
MessageText(e) == IF e.hasMessage THEN e.message ELSE "undefined"

\* the classes whose instances are `instanceof Error`
ErrorClasses == {"AxiosError", "TypeError", "Error"}

\* index.ts: handleApiError
HandleApiErrorIndex(e) ==
  IF e.cls \in {"undefined", "null"} THEN Thrown
  ELSE IF e.hasResponse
    THEN [fmt |-> "API Error: {status} - {body}", status |-> e.status,
          text |-> JsonStringify(e.data)]
    ELSE [fmt |-> "Error: {message}", status |-> 0, text |-> <<MessageText(e)>>]

\* README.md: handleApiError
HandleApiErrorReadme(e) ==
  IF e.cls = "AxiosError" /\ e.hasResponse
    THEN [fmt |-> "API Error: {status} - {body}", status |-> e.status,
          text |-> JsonStringify(e.data)]
    ELSE IF e.cls \in ErrorClasses
      THEN [fmt |-> "Error: {message}", status |-> 0, text |-> <<MessageText(e)>>]
      ELSE [fmt |-> "Unknown error occurred", status |-> 0, text |-> <<>>]

HandleApiError(im, e) ==
  IF im = "index" THEN HandleApiErrorIndex(e) ELSE HandleApiErrorReadme(e)

----------------------------------------------------------------------------
\* What a handler ends with.  kind: "return" or "throw"; isError: the isError
\* member of the returned object; shape: "data" (the value itself), "json" (one
\* text block holding JSON.stringify of it), "status" (a synthesized
\* {status, message} object), "diag" (the diagnostic string).

NoOutcome ==
  [kind |-> "none", isError |-> FALSE, shape |-> "", data |-> "", status |-> "",
   message |-> "", arg |-> "", diag |-> NoDiag]

\* return response.data  /  return {content: [{type: 'text', text: JSON.stringify(response.data, null, 2)}]}
ReturnData(im, d) ==
  [NoOutcome EXCEPT !.kind = "return", !.shape = IF im = "index" THEN "data" ELSE "json",
                    !.data = d]

\* return {status, message}  /  the same as one JSON text block
ReturnStatus(im, st, msg, arg, dg) ==
  [NoOutcome EXCEPT !.kind = "return",
                    !.shape = IF im = "index" THEN "status" ELSE "statusjson", !.status = st,
                    !.message = msg, !.arg = arg, !.diag = dg]

\* a catch block that returns the diagnostic as an ordinary result
FailWithUnflagged(im, dg) ==
  [NoOutcome EXCEPT !.kind = "return", !.shape = "diag", !.diag = dg]

\* throw new Error(handleApiError(error))  /  return {content: [...], isError: true}
FailWith(im, dg) ==
  IF im = "index"
    THEN [NoOutcome EXCEPT !.kind = "throw", !.shape = "diag", !.diag = dg]
    ELSE [NoOutcome EXCEPT !.kind = "return", !.isError = TRUE, !.shape = "diag", !.diag = dg]

\* every handler answering with a synthesized status object, as delete_collector does
SuccessOutcomeSynthesized(im, t, p, r) ==
  ReturnStatus(im, "success", "ok", "", NoDiag)

\* a handler that keeps failing once any invocation has failed
SuccessOutcomeSticky(im, t, p, r) ==
  IF failed THEN FailWith(im, [fmt |-> "Error: {message}", status |-> 0, text |-> <<"unavailable">>])
  ELSE CASE t = "check_connection" ->
              ReturnStatus(im, "success", "Connection to SumoLogic API successful", "", NoDiag)
         [] t = "delete_collector" ->
              ReturnStatus(im, "success", "Collector {collector_id} deleted successfully",
                           TemplateString(p["collector_id"]), NoDiag)
         [] OTHER -> ReturnData(im, r.data)

\* the try block's normal completion, given the last response
SuccessOutcome(im, t, p, r) ==
  CASE t = "check_connection" ->
         ReturnStatus(im, "success", "Connection to SumoLogic API successful", "", NoDiag)
    [] t = "delete_collector" ->
         ReturnStatus(im, "success", "Collector {collector_id} deleted successfully",
                      TemplateString(p["collector_id"]), NoDiag)
    [] OTHER -> ReturnData(im, r.data)

\* a catch block that is the same for all fourteen handlers
FailureOutcomeUniform(im, t, e) == FailWith(im, HandleApiError(im, e))

\* the catch block
FailureOutcome(im, t, e) ==
  IF t = "check_connection"
    THEN ReturnStatus(im, "error", "{handleApiError}", "", HandleApiError(im, e))
    ELSE FailWith(im, HandleApiError(im, e))

----------------------------------------------------------------------------
\* The remote collector

InitialCollector ==
  [id |-> Str("7"), collectorType |-> Str("Hosted"), name |-> Str("A"),
   description |-> Str("d"), category |-> Str("c"), fields |-> Obj("{x:1}")]

\* what another writer may store
OtherCollectors ==
  {[InitialCollector EXCEPT !.name = Str("O")],
   [k \in {"id", "collectorType", "name"} |-> InitialCollector[k]]}

----------------------------------------------------------------------------
\* Invocations

Slots == {1, 2}

\* the values a caller may supply for a declared parameter (U: not supplied)
ParamDomain(n) ==
  CASE n \in {"collector_id", "source_id", "job_id", "monitor_id"} -> {U, Str("7")}
    [] n = "name" -> {U, Str("B")}
    [] n = "description" -> {U, Str("e")}
    [] n = "category" -> {U, Str("k")}
    [] n = "fields" -> {U, Obj("{f:'1'}")}
    [] n \in {"query", "from_time", "to_time"} -> {U, Str("q")}
    [] n = "time_zone" -> {U, Str(""), Str("PST")}
    [] n = "limit" -> {U, Num(0), Num(50)}
    [] OTHER -> {U, Num(0), Num(5)}

NoParams == [n \in ParamNames |-> U]

RECURSIVE Assignments(_, _, _)
\* every assignment extending p on the parameter names in todo, with values from dom
Assignments(dom, p, todo) ==
  IF todo = {} THEN {p}
  ELSE LET n == CHOOSE x \in todo : TRUE
       IN UNION {Assignments(dom, [p EXCEPT ![n] = v], todo \ {n}) : v \in dom[n]}

Inputs(t) == Assignments([n \in ParamNames |-> ParamDomain(n)], NoParams, DeclaredParams(t))

IdleSlot ==
  [pc |-> "idle", impl |-> "", tool |-> "", params |-> NoParams, ran |-> FALSE,
   rejected |-> FALSE,
   reqs |-> <<>>, resps |-> <<>>,
   hasCur |-> FALSE, cur |-> NoObj, hasEtag |-> FALSE, etag |-> 0,
   outcome |-> NoOutcome, replyError |-> FALSE,
   getVer |-> 0, applied |-> FALSE, base |-> 0]

\* the objects whose members are all strings
StringRecords == {Obj("{}"), Obj("{f:'1'}")}

\* the type a parameter is declared with: index.ts declares fields with type:
\* 'object', README.md with z.record(z.string())
TypeAccepts(im, n, v) ==
  CASE n \in {"limit", "offset"} -> v.t = "number"
    [] n = "fields" -> IF im = "index" THEN v.t = "object" ELSE v \in StringRecords
    [] OTHER -> v.t = "string"

\* the required parameters as implementation im declares them
RequiredOf(im, t) == IF im = "index" THEN RequiredParams(t) ELSE RequiredParamsReadme(t)

\* the request schema check made before the handler body runs
Valid(im, t, p) ==
  /\ \A n \in RequiredOf(im, t) : p[n].t # "undefined"
  /\ \A n \in DeclaredParams(t) : p[n].t # "undefined" => TypeAccepts(im, n, p[n])

\* the first request as implementation im builds it
RequestOf(im, t, p) == IF im = "index" THEN FirstRequest(t, p) ELSE FirstRequestReadme(t, p)

\* the handler's synchronous prefix: up to its first await
StartHandler(im, t, p) ==
  [IdleSlot EXCEPT !.pc = IF t = "update_collector" THEN "awaitGet" ELSE "await",
                   !.impl = im, !.tool = t, !.params = p, !.ran = TRUE,
                   !.reqs = <<RequestOf(im, t, p)>>]

\* the call was refused by the schema check: an error answer, no handler run
Rejected(im, t, p) ==
  [IdleSlot EXCEPT !.pc = "replied", !.impl = im, !.tool = t, !.params = p,
                   !.rejected = TRUE, !.replyError = TRUE]

\* a catch block that fetches again and retries when the PUT met a 412
CatchBlockRetry412(s, e) ==
  IF s.tool = "update_collector" /\ e.status = 412 /\ Len(s.reqs) < 4
    THEN [s EXCEPT !.pc = "awaitGet", !.reqs = Append(@, FirstRequest(s.tool, s.params))]
    ELSE [s EXCEPT !.pc = "done", !.outcome = FailureOutcome(s.impl, s.tool, e)]

\* a catch block that sends a failed request once more
CatchBlockRetryOnce(s, e) ==
  IF Len(s.reqs) = Len(s.resps) /\ Len(s.resps) < 3 /\ e.cls = "AxiosError"
       /\ \A k \in 1..(Len(s.resps) - 1) : s.resps[k].kind = "ok"
    THEN [s EXCEPT !.reqs = Append(@, s.reqs[Len(s.reqs)])]
    ELSE [s EXCEPT !.pc = "done", !.outcome = FailureOutcome(s.impl, s.tool, e)]

\* the catch block: the handler ends with the normalized error
CatchBlock(s, e) ==
  [s EXCEPT !.pc = "done", !.outcome = FailureOutcome(s.impl, s.tool, e)]

\* the rest of the try block after the last await
ReturnBlock(s, r) ==
  [s EXCEPT !.pc = "done", !.outcome = SuccessOutcome(s.impl, s.tool, s.params, r)]

\* a stale copy taken at startup instead of the collector just fetched
CachedCollector(r) == InitialCollector

\* const currentCollector = getResponse.data.collector
CurrentCollector(r) == r.collector

\* update_collector after its GET resolved: merge, then issue the PUT
AfterGet(s, r) ==
  IF MergeThrows(r.hasCollector, s.params)
    THEN CatchBlock(s, TypeError)
    ELSE LET s1 == [s EXCEPT !.hasCur = r.hasCollector, !.cur = CurrentCollector(r),
                             !.hasEtag = r.hasEtag, !.etag = r.etag]
         IN [s1 EXCEPT !.pc = "awaitPut", !.reqs = Append(s.reqs, PutRequest(s1))]

\* README.md: update_collector after its GET resolved
AfterGetReadme(s, r) ==
  LET s1 == [s EXCEPT !.hasCur = r.hasCollector, !.cur = r.collector,
                      !.hasEtag = r.hasEtag, !.etag = r.etag]
  IN IF MergeThrowsReadme(s1.hasCur, s1.params)
       THEN CatchBlock(s, TypeError)
       ELSE [s1 EXCEPT !.pc = "awaitPut", !.reqs = Append(s.reqs, PutRequestReadme(s1))]

\* what the handler does once the awaited request settled with r
Continue(s, r) ==
  IF r.kind # "ok" THEN CatchBlock(s, AxiosError(r))
  ELSE IF s.pc = "awaitGet"
    THEN IF s.impl = "index" THEN AfterGet(s, r) ELSE AfterGetReadme(s, r)
    ELSE ReturnBlock(s, r)

Updating == {i \in Slots : inv[i].pc \in {"awaitGet", "awaitPut"}}

----------------------------------------------------------------------------
\* The remote service

GenericResponses ==
  {OkResp(d) : d \in Payloads}
    \cup {HttpErrResp(st, b) : st \in {404, 500}, b \in ErrorBodies}
    \cup {NetErrResp}

\* GET /v1/collectors/{id}: the collector and its entity tag
GetResponses ==
  {[OkResp("{collector}") EXCEPT !.hasCollector = TRUE, !.collector = remote,
                                 !.hasEtag = TRUE, !.etag = ver],
   [OkResp("{collector}") EXCEPT !.hasCollector = TRUE, !.collector = remote],
   OkResp("{}")}
    \cup {HttpErrResp(st, b) : st \in {404}, b \in ErrorBodies}
    \cup {NetErrResp}

\* the service accepts a PUT only when If-Match equals the current entity tag
Accepts(rq) == rq.hasIfMatch /\ rq.ifMatch = ver

PreconditionFailed == HttpErrResp(412, "{error:precondition failed}")

----------------------------------------------------------------------------
\* Actions

\* the credential variables and the values they may hold
CredentialValues(n) == {U, Str(""), Str(IF n = "id" THEN "su123" ELSE "secret")}

NotBooted == [registered |-> FALSE, connected |-> FALSE, exitCode |-> 0]

Init ==
  /\ impl \in Impls
  /\ env \in [id : CredentialValues("id"), key : CredentialValues("key")]
  /\ proc = "init"
  /\ boot = NotBooted
  /\ inv = [i \in Slots |-> IdleSlot]
  /\ remote = InitialCollector
  /\ ver = 0
  /\ norm = NoCall
  /\ failed = FALSE

\* const SUMOLOGIC_ACCESS_ID = process.env.SUMOLOGIC_ACCESS_ID || ''
SUMOLOGIC_ACCESS_ID == OrElse(env.id, Str(""))
SUMOLOGIC_ACCESS_KEY == OrElse(env.key, Str(""))

\* a check that looks at the access id only
CredentialsMissingIdOnly == ~Truthy(SUMOLOGIC_ACCESS_ID)

\* if (!SUMOLOGIC_ACCESS_ID || !SUMOLOGIC_ACCESS_KEY)
CredentialsMissing == ~Truthy(SUMOLOGIC_ACCESS_ID) \/ ~Truthy(SUMOLOGIC_ACCESS_KEY)

\* process.exit(1)
Exit == /\ proc' = "exited" /\ boot' = [boot EXCEPT !.exitCode = 1]

\* module top level: the credential check, then the axios client
CredentialCheck ==
  /\ proc = "init"
  /\ IF CredentialsMissing THEN Exit ELSE (proc' = "loaded" /\ boot' = boot)
  /\ UNCHANGED <<impl, inv, remote, ver, env, norm, failed>>

\* server.tools.register(tool) for each tool  /  the server.tool(...) registrations
RegisterTools ==
  /\ proc = "loaded"
  /\ proc' = "registered"
  /\ boot' = [boot EXCEPT !.registered = TRUE]
  /\ UNCHANGED <<impl, inv, remote, ver, env, norm, failed>>

\* main(): await server.connect(transport) resolves, or rejects and the process exits
Connect ==
  /\ proc = "registered"
  /\ \/ proc' = "serving" /\ boot' = [boot EXCEPT !.connected = TRUE]
     \/ Exit
  /\ UNCHANGED <<impl, inv, remote, ver, env, norm, failed>>

\* startup, from module load to the connected server
Startup == CredentialCheck \/ RegisterTools \/ Connect

\* an inbound tools/call request: schema check, then the handler up to its first await
Call(i, t, p) ==
  /\ proc = "serving"
  /\ inv[i].pc = "idle"
  /\ t = "update_collector" => ver + Cardinality(Updating) < MaxVer
  /\ inv' = [inv EXCEPT ![i] =
                    IF Valid(impl, t, p) THEN StartHandler(impl, t, p)
                    ELSE Rejected(impl, t, p)]
  /\ UNCHANGED <<impl, remote, ver, proc, boot, env, norm, failed>>

Invoke(i) ==
  \E t \in Tools : \E p \in Inputs(t) :
    Call(i, t, p)

\* the caller has its answer; the slot is free for the next request
Release(i) ==
  /\ inv[i].pc = "replied"
  /\ inv' = [inv EXCEPT ![i] = IdleSlot]
  /\ UNCHANGED <<impl, remote, ver, proc, boot, env, norm, failed>>

\* the single request of a one-request handler resolves or rejects
Respond(i) ==
  /\ inv[i].pc = "await"
  /\ \E r \in GenericResponses :
       LET s == [inv[i] EXCEPT !.resps = Append(@, r)]
       IN inv' = [inv EXCEPT ![i] =
                    Continue(s, r)]
  /\ UNCHANGED <<impl, remote, ver, proc, boot, env, norm, failed>>

\* update_collector: the GET resolves or rejects
GetResponse(i) ==
  /\ inv[i].pc = "awaitGet"
  /\ \E r \in GetResponses :
       LET s == [inv[i] EXCEPT !.resps = Append(@, r), !.getVer = ver]
       IN inv' = [inv EXCEPT ![i] =
                    Continue(s, r)]
  /\ UNCHANGED <<impl, remote, ver, proc, boot, env, norm, failed>>

\* update_collector: the service decides the PUT, and the PUT resolves or rejects
PutResponse(i) ==
  /\ inv[i].pc = "awaitPut"
  /\ LET rq == inv[i].reqs[Len(inv[i].reqs)]
     IN \/ /\ Accepts(rq)
           /\ remote' = Serialize(rq.obj)
           /\ ver' = ver + 1
           /\ \E r \in {OkResp(d) : d \in Payloads} \cup {NetErrResp} :
                LET s == [inv[i] EXCEPT !.resps = Append(@, r), !.applied = TRUE,
                                        !.base = ver]
                IN inv' = [inv EXCEPT ![i] = Continue(s, r)]
        \/ /\ UNCHANGED <<remote, ver>>
           /\ \E r \in (IF Accepts(rq) THEN {} ELSE {PreconditionFailed}) \cup {NetErrResp} :
                LET s == [inv[i] EXCEPT !.resps = Append(@, r)]
                IN inv' = [inv EXCEPT ![i] = Continue(s, r)]
  /\ UNCHANGED <<impl, proc, boot, env, norm, failed>>

\* the handler's failure as its caller sees it
Failed(o) == o.kind = "throw" \/ o.isError \/ o.status = "error"

\* the protocol adapter answers the request: a rejection becomes an error-flagged result
Deliver(i) ==
  /\ inv[i].pc = "done"
  /\ inv' = [inv EXCEPT ![i].pc = "replied",
                        ![i].replyError = inv[i].outcome.kind = "throw" \/ inv[i].outcome.isError]
  /\ failed' = (failed \/ Failed(inv[i].outcome))
  /\ UNCHANGED <<impl, remote, ver, proc, boot, env, norm>>

\* another client of the service writes the collector
OtherWrite ==
  /\ proc = "serving"
  /\ ver + Cardinality(Updating) < MaxVer
  /\ remote' \in OtherCollectors
  /\ ver' = ver + 1
  /\ UNCHANGED <<impl, inv, proc, boot, env, norm, failed>>

\* one request at a time: the steady state of the stdio transport
Next ==
  \/ Startup
  \/ Invoke(1)
  \/ Respond(1)
  \/ GetResponse(1)
  \/ PutResponse(1)
  \/ Deliver(1)
  \/ Release(1)
  \/ OtherWrite

Spec == Init /\ [][Next]_vars

----------------------------------------------------------------------------
\* Concurrent dispatch: two update_collector invocations in flight on the same
\* collector, next to another writer.

ConcInputs ==
  {p \in Inputs("update_collector") :
     /\ \A im \in Impls : Valid(im, "update_collector", p)
     /\ p["category"].t = "undefined" /\ p["fields"].t = "undefined"
     /\ p["name"].t # "undefined" \/ p["description"].t # "undefined"}

InvokeUpdate(i) == \E p \in ConcInputs : Call(i, "update_collector", p)

NextConc ==
  \/ Startup
  \/ \E i \in Slots : InvokeUpdate(i)
  \/ \E i \in Slots : GetResponse(i)
  \/ \E i \in Slots : PutResponse(i)
  \/ \E i \in Slots : Deliver(i)
  \/ \E i \in Slots : Release(i)
  \/ OtherWrite

SpecConc == Init /\ [][NextConc]_vars

----------------------------------------------------------------------------
\* The merge on its own: one update_collector invocation per behaviour, its
\* optional parameters drawn from undefined, a false-y value and a truthy value.

MergeDomain(n) ==
  CASE n = "name" -> {U, Str(""), Str("B")}
    [] n = "description" -> {U, Str(""), Str("e")}
    [] n = "category" -> {U, Str(""), Str("k")}
    [] n = "fields" -> {U, Obj("{}"), Obj("{f:'1'}")}
    [] OTHER -> {Str("7")}

MergeInputs ==
  Assignments([n \in ParamNames |-> MergeDomain(n)], NoParams, DeclaredParams("update_collector"))

InitMerge ==
  /\ impl \in Impls
  /\ env = [id |-> Str("su123"), key |-> Str("secret")]
  /\ proc = "serving"
  /\ boot = [NotBooted EXCEPT !.registered = TRUE, !.connected = TRUE]
  /\ \E p \in MergeInputs :
       inv = [i \in Slots |-> IF i = 1 THEN StartHandler(impl, "update_collector", p) ELSE IdleSlot]
  /\ remote \in {InitialCollector} \cup OtherCollectors
  /\ ver = 0
  /\ norm = NoCall
  /\ failed = FALSE

NextMerge ==
  \/ GetResponse(1)
  \/ PutResponse(1)
  \/ Deliver(1)
  \/ OtherWrite

SpecMerge == InitMerge /\ [][NextMerge]_vars

----------------------------------------------------------------------------
\* The error normalizer on its own: one call of handleApiError per behaviour,
\* its argument any value a catch clause can bind.

\* undefined, null, strings, plain objects, Error instances and AxiosErrors, with
\* and without a response member and a message member
ErrorValues ==
  LET Shapes == {[NoErr EXCEPT !.hasResponse = TRUE, !.status = st, !.data = d] :
                   st \in {400, 404, 412, 500}, d \in ErrorBodies \cup {"{}"}}
                  \cup {NoErr}
  IN {NoErr, [NoErr EXCEPT !.cls = "null"]}
       \cup {[NoErr EXCEPT !.cls = "string", !.data = x] : x \in {"", "boom"}}
       \cup {[e EXCEPT !.cls = "object"] : e \in Shapes}
       \cup {[e EXCEPT !.cls = "object", !.hasMessage = TRUE, !.message = x] :
               e \in Shapes, x \in {"", "m"}}
       \cup {[e EXCEPT !.cls = c, !.hasMessage = TRUE, !.message = x] :
               e \in Shapes, c \in ErrorClasses, x \in {"", "m"}}

InitNormalize ==
  /\ impl \in Impls
  /\ env = [id |-> Str("su123"), key |-> Str("secret")]
  /\ proc = "serving"
  /\ boot = [NotBooted EXCEPT !.registered = TRUE, !.connected = TRUE]
  /\ inv = [i \in Slots |-> IdleSlot]
  /\ remote = InitialCollector
  /\ ver = 0
  /\ norm \in {[NoCall EXCEPT !.pc = "call", !.err = e] : e \in ErrorValues}
  /\ failed = FALSE

\* handleApiError(error) returns its string, or throws
Normalize ==
  /\ norm.pc = "call"
  /\ LET out == HandleApiError(impl, norm.err)
     IN norm' = [norm EXCEPT !.pc = IF out = Thrown THEN "threw" ELSE "returned",
                             !.out = out]
  /\ UNCHANGED <<impl, inv, remote, ver, proc, boot, env, failed>>

NextNormalize == Normalize

SpecNormalize == InitNormalize /\ [][NextNormalize]_vars

----------------------------------------------------------------------------
\* The two implementations side by side: slot 1 is served by index.ts, slot 2 by
\* README.md; both get the same call, and each request they have pending is
\* settled with the same response.

ImplAt(i) == IF i = 1 THEN "index" ELSE "readme"

EquivDomain(n) ==
  CASE n \in {"name", "description", "category"} -> MergeDomain(n)
    [] n = "fields" -> {U, Obj("{}"), Obj("{f:'1'}"), Obj("{f:1}")}
    [] OTHER -> ParamDomain(n)

EquivInputs(t) == Assignments([n \in ParamNames |-> EquivDomain(n)], NoParams, DeclaredParams(t))

\* any response the client may settle a request with
EquivResponses ==
  GenericResponses \cup {PreconditionFailed}
    \cup {[OkResp("{collector}") EXCEPT !.hasCollector = TRUE, !.collector = c,
                                        !.hasEtag = h, !.etag = IF h THEN 1 ELSE 0] :
            c \in {InitialCollector} \cup OtherCollectors, h \in BOOLEAN}
    \cup {OkResp("{}")}

Pending(s) == s.pc \in {"await", "awaitGet", "awaitPut"}

InitEquiv ==
  /\ impl = "index"
  /\ env = [id |-> Str("su123"), key |-> Str("secret")]
  /\ proc = "serving"
  /\ boot = [NotBooted EXCEPT !.registered = TRUE, !.connected = TRUE]
  /\ inv = [i \in Slots |-> IdleSlot]
  /\ remote = InitialCollector
  /\ ver = 0
  /\ norm = NoCall
  /\ failed = FALSE

\* the same tools/call request reaches both implementations
InvokeBoth ==
  /\ \A i \in Slots : inv[i].pc = "idle"
  /\ \E t \in Tools : \E p \in EquivInputs(t) :
       inv' = [i \in Slots |->
                 IF Valid(ImplAt(i), t, p) THEN StartHandler(ImplAt(i), t, p)
                 ELSE Rejected(ImplAt(i), t, p)]
  /\ UNCHANGED <<impl, remote, ver, proc, boot, env, norm, failed>>

\* the pending requests are settled with one and the same response
SettleBoth ==
  /\ \E i \in Slots : Pending(inv[i])
  /\ \E r \in EquivResponses :
       inv' = [i \in Slots |->
                 IF Pending(inv[i])
                   THEN Continue([inv[i] EXCEPT !.resps = Append(@, r)], r)
                   ELSE inv[i]]
  /\ UNCHANGED <<impl, remote, ver, proc, boot, env, norm, failed>>

\* both callers get their answers
DeliverBoth ==
  /\ \A i \in Slots : ~Pending(inv[i])
  /\ \E i \in Slots : inv[i].pc = "done"
  /\ inv' = [i \in Slots |->
               IF inv[i].pc = "done"
                 THEN [inv[i] EXCEPT !.pc = "replied",
                                     !.replyError = inv[i].outcome.kind = "throw"
                                                      \/ inv[i].outcome.isError]
                 ELSE inv[i]]
  /\ UNCHANGED <<impl, remote, ver, proc, boot, env, norm, failed>>

ReleaseBoth ==
  /\ \A i \in Slots : inv[i].pc = "replied"
  /\ inv' = [i \in Slots |-> IdleSlot]
  /\ UNCHANGED <<impl, remote, ver, proc, boot, env, norm, failed>>

NextEquiv == InvokeBoth \/ SettleBoth \/ DeliverBoth \/ ReleaseBoth

SpecEquiv == InitEquiv /\ [][NextEquiv]_vars

----------------------------------------------------------------------------
\* Claims

Done(s) == s.pc \in {"done", "replied"}
Last(q) == q[Len(q)]
Count(s, ms) == Cardinality({k \in 1..Len(s.reqs) : s.reqs[k].method \in ms})
Saw412(s) == \E k \in 1..Len(s.resps) : s.resps[k].status = 412

\* C1: lost-update prevention.  Against a service that accepts a PUT only when
\* If-Match equals the current entity tag and changes the tag on every accepted
\* write, the step that settles an update_collector PUT changes the collector
\* only if no write was accepted since that invocation's GET, and then the new
\* state is the merge over the state current just before the write; if a write
\* was accepted in between, the PUT is rejected, the invocation fails, and the
\* collector keeps the other writer's state.
C1_NoLostUpdate ==
  [][\A i \in Slots :
       (inv[i].pc = "awaitPut" /\ inv'[i].pc = "done") =>
         IF inv[i].getVer = ver
           THEN (remote' # remote \/ ver' # ver \/ inv'[i].applied) =>
                  /\ remote' = Serialize(MergeCollector(TRUE, remote, inv[i].params))
                  /\ ver' = ver + 1
           ELSE /\ remote' = remote
                /\ ver' = ver
                /\ ~inv'[i].applied
                /\ Failed(inv'[i].outcome)]_vars

\* two update_collector invocations read the same version; one wrote, the other met 412
C1_Witness ==
  \E i \in Slots : \E j \in Slots \ {i} :
    /\ inv[i].applied /\ inv[i].base = inv[j].getVer
    /\ inv[j].pc = "done" /\ inv[j].hasEtag /\ ~inv[j].applied
    /\ Saw412(inv[j])
    /\ remote = Serialize(MergeCollector(TRUE, inv[i].cur, inv[i].params))

\* C2: whenever the conditional PUT of an update_collector invocation is rejected
\* with 412, the invocation has ended with an error carrying that status, after
\* exactly one PUT and exactly one GET: no re-fetch, no retry.
C2_ConflictNoRetry ==
  \A i \in Slots :
    Saw412(inv[i]) =>
      /\ Done(inv[i])
      /\ inv[i].outcome.kind = "throw" \/ inv[i].outcome.isError
      /\ inv[i].outcome.diag.status = 412
      /\ Count(inv[i], {"PUT"}) = 1
      /\ Count(inv[i], {"GET"}) = 1
      /\ Len(inv[i].reqs) = 2
      /\ inv[i].pc = "replied" => inv[i].replyError

\* a PUT that carried the fetched tag was rejected because another writer came first
C2_Witness ==
  \E i \in Slots :
    /\ inv[i].tool = "update_collector" /\ inv[i].pc = "replied"
    /\ Saw412(inv[i]) /\ inv[i].hasEtag /\ inv[i].etag < ver

\* C3: the PUT body is the fetched collector S with exactly the supplied fields
\* replaced by the supplied values, every other field as fetched, and the
\* If-Match header is the fetched token T.
C3_MergeExactlySupplied ==
  \A i \in Slots :
    (/\ inv[i].tool = "update_collector" /\ Len(inv[i].reqs) = 2
     /\ inv[i].resps[1].hasCollector /\ inv[i].resps[1].hasEtag) =>
      LET rq == inv[i].reqs[2]
          S == inv[i].resps[1].collector
          p == inv[i].params
      IN /\ rq.method = "PUT" /\ rq.hasIfMatch /\ rq.ifMatch = inv[i].resps[1].etag
         /\ \A k \in DOMAIN rq.obj \cup DOMAIN S :
              Field(rq.obj, k) =
                IF k \in CollectorKeys /\ p[k].t # "undefined" THEN p[k] ELSE Field(S, k)

\* the Error Normalizer's output for the failure the last request met
Normalized(s) == HandleApiError(impl, AxiosError(Last(s.resps)))
RemoteFailed(s) == Len(s.resps) > 0 /\ Last(s.resps).kind # "ok"

\* C4: for every one of the fourteen handlers, a failed remote call does not
\* make the handler throw: it returns an error-flagged result whose message is
\* the Error Normalizer's output for that failure.
C4_FailureIsFlaggedResult ==
  \A i \in Slots :
    (Done(inv[i]) /\ inv[i].ran /\ RemoteFailed(inv[i])) =>
      /\ inv[i].outcome.kind = "return"
      /\ inv[i].outcome.isError
      /\ inv[i].outcome.diag = Normalized(inv[i])

HasDiag(o) == o.diag # NoDiag
HasPayload(o) == o.shape \in {"data", "json", "status", "statusjson"}
ErrorSignalled(o) == o.kind = "throw" \/ o.isError
SuccessVariant(o) == HasPayload(o) /\ ~HasDiag(o) /\ ~ErrorSignalled(o)
ErrorVariant(o) == HasDiag(o) /\ ErrorSignalled(o) /\ ~HasPayload(o) /\ o.data = ""

RequiredBySpec(t) ==
  CASE t \in {"get_collector", "delete_collector", "list_sources", "update_collector"}
         -> {"collector_id"}
    [] t = "create_hosted_collector" -> {"name"}
    [] t = "get_source" -> {"collector_id", "source_id"}
    [] t = "create_http_source" -> {"collector_id", "name"}
    [] t = "start_search_job" -> {"query", "from_time", "to_time"}
    [] t \in {"check_search_job_status", "get_search_job_results"} -> {"job_id"}
    [] t = "get_monitor" -> {"monitor_id"}
    [] OTHER -> {}

MissingRequired(s) == \E n \in RequiredBySpec(s.tool) : s.params[n].t = "undefined"

\* C6: an invocation that omits a required parameter is rejected and no request
\* reaches the transport client during it; the handler body runs only with
\* every required parameter present.
C6_ValidationBeforeIO ==
  \A i \in Slots :
    /\ (inv[i].tool # "" /\ MissingRequired(inv[i])) =>
         /\ inv[i].rejected /\ ~inv[i].ran /\ inv[i].replyError
         /\ inv[i].reqs = <<>> /\ inv[i].resps = <<>>
    /\ inv[i].ran => ~MissingRequired(inv[i])
    /\ \A k \in 1..Len(inv[i].reqs) : \A j \in 1..Len(inv[i].reqs[k].path) :
         inv[i].reqs[k].path[j] # "undefined"

\* get_collector called without collector_id was answered with an error, no request made
C6_Witness ==
  \E i \in Slots :
    /\ inv[i].tool = "get_collector" /\ inv[i].params["collector_id"].t = "undefined"
    /\ inv[i].pc = "replied" /\ inv[i].rejected /\ inv[i].reqs = <<>>

ReadOnlyHandlers ==
  {"list_collectors", "get_collector", "list_sources", "get_source",
   "check_search_job_status", "get_search_job_results", "list_monitors", "get_monitor"}

\* C7: for every read-only handler and every payload P the transport client
\* returns for its request, the handler's success result is P unchanged: the
\* value itself (index.ts) or the one text block holding its JSON (README.md),
\* with no error signal and nothing synthesized.
C7_Passthrough ==
  \A i \in Slots :
    (/\ Done(inv[i]) /\ inv[i].tool \in ReadOnlyHandlers
     /\ Len(inv[i].resps) = 1 /\ inv[i].resps[1].kind = "ok") =>
      LET o == inv[i].outcome
      IN /\ o.kind = "return" /\ ~o.isError
         /\ o.shape = (IF impl = "index" THEN "data" ELSE "json")
         /\ o.data = inv[i].resps[1].data
         /\ o.status = "" /\ o.message = "" /\ ~HasDiag(o)
         /\ inv[i].reqs = <<FirstRequest(inv[i].tool, inv[i].params)>>
         /\ inv[i].reqs[1].method = "GET"

\* get_source got payload P2 and answered with it
C7_Witness ==
  \E i \in Slots :
    /\ inv[i].pc = "replied" /\ inv[i].tool = "get_source"
    /\ inv[i].resps = <<OkResp("P2")>> /\ inv[i].outcome.data = "P2"
    /\ ~inv[i].replyError

\* C8: a handler other than update_collector issues exactly one remote request
\* in every invocation, update_collector at most two (one GET, then at most one
\* PUT), and no request follows a failed one.
C8_CallCount ==
  \A i \in Slots :
    inv[i].ran =>
      /\ inv[i].tool # "update_collector" => Len(inv[i].reqs) = 1
      /\ inv[i].tool = "update_collector" =>
           /\ Len(inv[i].reqs) \in {1, 2}
           /\ inv[i].reqs[1].method = "GET"
           /\ Len(inv[i].reqs) = 2 => inv[i].reqs[2].method = "PUT"
      /\ Len(inv[i].resps) <= Len(inv[i].reqs)
      /\ \A k \in 1..Len(inv[i].resps) :
           inv[i].resps[k].kind # "ok" => (k = Len(inv[i].reqs) /\ Done(inv[i]))

\* an update_collector invocation ended after a GET and a failed PUT
C8_Witness ==
  \E i \in Slots :
    /\ inv[i].tool = "update_collector" /\ inv[i].pc = "done"
    /\ Len(inv[i].reqs) = 2 /\ Len(inv[i].resps) = 2
    /\ inv[i].resps[2].kind = "net"

MutatingTools ==
  {"create_hosted_collector", "update_collector", "delete_collector",
   "create_http_source", "start_search_job"}
Mutating == {"POST", "PUT", "DELETE"}

\* C9 as stated: every invocation of a create/update/delete handler issues
\* exactly one mutating remote call, whatever the remote calls' outcomes.
C9_ExactlyOneMutation ==
  \A i \in Slots :
    (Done(inv[i]) /\ inv[i].ran /\ inv[i].tool \in MutatingTools) =>
      Count(inv[i], Mutating) = 1

\* the merge never reads the fetched collector
AllFourSupplied(p) ==
  /\ Truthy(p["name"]) /\ p["description"].t # "undefined"
  /\ Truthy(p["category"]) /\ Truthy(p["fields"])

\* C9 as amended: create_hosted_collector, delete_collector, create_http_source
\* and start_search_job issue exactly one mutating call in every invocation;
\* update_collector issues at most one, its PUT: exactly one when its GET
\* succeeded and the merge completed (the body held a collector, or all four
\* optional fields were supplied), none when the GET failed or the merge threw.
C9_OneMutationUnlessGetFails ==
  \A i \in Slots :
    (Done(inv[i]) /\ inv[i].ran /\ inv[i].tool \in MutatingTools) =>
      IF inv[i].tool = "update_collector"
        THEN /\ Count(inv[i], Mutating) <= 1
             /\ Count(inv[i], Mutating) = 1 <=>
                  /\ inv[i].resps[1].kind = "ok"
                  /\ inv[i].resps[1].hasCollector \/ AllFourSupplied(inv[i].params)
        ELSE /\ Count(inv[i], Mutating) = 1
             /\ Len(inv[i].reqs) = 1

\* an update_collector invocation whose GET met 404 ended without a PUT
C9_Witness ==
  \E i \in Slots :
    /\ inv[i].tool = "update_collector" /\ inv[i].pc = "done"
    /\ inv[i].resps = <<HttpErrResp(404, "{error:not found}")>>
    /\ Count(inv[i], Mutating) = 0

\* the failure of this invocation's own remote call or of its own merge
OwnFailure(s) ==
  \/ RemoteFailed(s)
  \/ s.tool = "update_collector" /\ Len(s.reqs) = 1

Isolated(s) ==
  /\ s.ran => (s.reqs[1] = FirstRequest(s.tool, s.params) /\ ~s.rejected)
  /\ (Done(s) /\ s.ran) => (Failed(s.outcome) <=> OwnFailure(s))
  /\ (Done(s) /\ s.ran /\ ~OwnFailure(s)) =>
       (s.outcome.data = Last(s.resps).data \/ s.outcome.status = "success")

Absent(v) == v = U \/ v = Str("")
NoRequestYet == \A i \in Slots : inv[i].reqs = <<>> /\ inv[i].pc = "idle"

\* C11: startup credential gate.  If the access id or the access key is absent
\* or empty, the process never gets past the credential check: its only step is
\* the exit with code 1, with no tool registered, no transport connected and no
\* request issued.  With both present, a failed handshake also exits with code
\* 1; a connected server keeps running.  No request is issued before the
\* transport is connected.
C11_StartupGate ==
  /\ [](/\ (Absent(env.id) \/ Absent(env.key)) =>
             /\ proc \in {"init", "exited"}
             /\ ~boot.registered /\ ~boot.connected /\ NoRequestYet
        /\ proc = "exited" <=> boot.exitCode = 1
        /\ proc = "exited" => ~boot.connected /\ NoRequestYet
        /\ proc = "serving" <=> boot.connected
        /\ boot.connected => boot.registered
        /\ proc # "serving" => NoRequestYet)
  /\ [][/\ (proc = "init" /\ (Absent(env.id) \/ Absent(env.key))) => proc' = "exited"
        /\ (proc = "init" /\ ~(Absent(env.id) \/ Absent(env.key))) => proc' = "loaded"
        /\ proc = "registered" => proc' \in {"serving", "exited"}
        /\ proc = "serving" => proc' = "serving"
        /\ proc = "exited" => FALSE]_<<proc, boot>>

\* the access key is empty: the process exited with code 1 and registered nothing
C11_Witness ==
  /\ env.id = Str("su123") /\ env.key = Str("")
  /\ proc = "exited" /\ boot.exitCode = 1 /\ ~boot.registered /\ ~boot.connected

DigitValue(c) == CHOOSE d \in 0..9 : Digit(d) = c

RECURSIVE DecimalValue(_)
\* the number a string of decimal digits denotes
DecimalValue(q) ==
  IF Len(q) = 0 THEN 0
  ELSE 10 * DecimalValue(SubSeq(q, 1, Len(q) - 1)) + DigitValue(q[Len(q)])

\* q is the decimal string of the natural number k
IsDecimalOf(q, k) ==
  /\ Len(q) >= 1 /\ (Len(q) > 1 => q[1] # "0")
  /\ \A j \in 1..Len(q) : \E d \in 0..9 : q[j] = Digit(d)
  /\ DecimalValue(q) = k

\* C12: the GET of a get_search_job_results invocation carries a limit query
\* parameter exactly when limit was supplied and an offset query parameter
\* exactly when offset was supplied, each the decimal string of the supplied
\* number (a supplied 0 is sent as "0"); no other request carries either.
C12_SearchResultsQuery ==
  \A i \in Slots : \A k \in 1..Len(inv[i].reqs) :
    LET rq == inv[i].reqs[k]
        p == inv[i].params
    IN IF inv[i].tool = "get_search_job_results"
         THEN /\ rq.method = "GET"
              /\ rq.path = <<"v1", "search", "jobs", p["job_id"].s, "messages">>
              /\ rq.query.hasLimit <=> p["limit"].t # "undefined"
              /\ rq.query.hasOffset <=> p["offset"].t # "undefined"
              /\ rq.query.hasLimit => IsDecimalOf(rq.query.limit, p["limit"].n)
              /\ rq.query.hasOffset => IsDecimalOf(rq.query.offset, p["offset"].n)
              /\ ~rq.query.hasLimit => rq.query.limit = <<>>
              /\ ~rq.query.hasOffset => rq.query.offset = <<>>
         ELSE rq.query = NoQuery

\* limit=50, offset=0 were sent as "50" and "0"
C12_Witness ==
  \E i \in Slots :
    /\ inv[i].tool = "get_search_job_results" /\ inv[i].pc = "replied"
    /\ inv[i].params["limit"] = Num(50) /\ inv[i].params["offset"] = Num(0)
    /\ Len(inv[i].reqs) = 1
    /\ inv[i].reqs[1].query =
         [hasLimit |-> TRUE, limit |-> <<"5", "0">>, hasOffset |-> TRUE, offset |-> <<"0">>]

\* C13: a create_hosted_collector invocation issues one POST to /v1/collectors
\* whose body is {collector: {...}} with collectorType "Hosted" and name the
\* supplied name; description, category and fields each carry the supplied
\* value when supplied and are absent or undefined when not, and the body has
\* no other member.
C13_HostedCollectorBody ==
  \A i \in Slots :
    (inv[i].tool = "create_hosted_collector" /\ inv[i].ran) =>
      LET p == inv[i].params
      IN /\ Len(inv[i].reqs) = 1
         /\ LET rq == inv[i].reqs[1]
            IN /\ rq.method = "POST" /\ rq.path = <<"v1", "collectors">>
               /\ rq.hasBody /\ rq.wrap = "collector" /\ ~rq.hasIfMatch
               /\ Field(rq.obj, "collectorType") = Str("Hosted")
               /\ Field(rq.obj, "name") = p["name"] /\ p["name"].t # "undefined"
               /\ \A k \in {"description", "category", "fields"} :
                    /\ Field(rq.obj, k) = p[k]
                    /\ k \in DOMAIN Serialize(rq.obj) <=> p[k].t # "undefined"
               /\ DOMAIN rq.obj \subseteq
                    {"collectorType", "name", "description", "category", "fields"}

\* only name was supplied: the body on the wire holds collectorType and name alone
C13_Witness ==
  \E i \in Slots :
    /\ inv[i].tool = "create_hosted_collector" /\ inv[i].pc = "replied" /\ inv[i].ran
    /\ inv[i].params = [NoParams EXCEPT !["name"] = Str("B")]
    /\ Serialize(inv[i].reqs[1].obj) = [collectorType |-> Str("Hosted"), name |-> Str("B")]

\* the diagnostic the three-way rule assigns to a value
ThreeWay(e) ==
  IF e.hasResponse
    THEN [fmt |-> "API Error: {status} - {body}", status |-> e.status,
          text |-> JsonStringify(e.data)]
    ELSE IF e.hasMessage
      THEN [fmt |-> "Error: {message}", status |-> 0, text |-> <<e.message>>]
      ELSE [fmt |-> "Unknown error occurred", status |-> 0, text |-> <<>>]

\* C14: the Error Normalizer is total and three-way.  For every value, error
\* object or not, the call returns without throwing, with "API Error: {status}
\* - {json(body)}" when the value carries a structured response, else "Error:
\* {message}" when it carries a message, else "Unknown error occurred".
C14_NormalizerTotalThreeWay ==
  norm.pc \notin {"none", "call"} =>
    /\ norm.pc = "returned"
    /\ norm.out = ThreeWay(norm.err)

\* The values a handler's catch block meets are AxiosErrors and the merge's
\* TypeError: every call of the normalizer made from a handler returns, with
\* the API Error form or the Error form.
HandlerErrorsNormalized ==
  \A i \in Slots :
    (Done(inv[i]) /\ inv[i].ran /\ HasDiag(inv[i].outcome)) =>
      /\ inv[i].outcome.diag # Thrown
      /\ inv[i].outcome.diag.fmt \in {"API Error: {status} - {body}", "Error: {message}"}

\* an update_collector invocation that issued its PUT
PutIssued(s) == s.tool = "update_collector" /\ Len(s.reqs) = 2
\* the collector its GET returned (no member at all when the body held none)
Fetched(s) == IF s.resps[1].hasCollector THEN s.resps[1].collector ELSE <<>>
\* the empty string and the empty object
Empty(v) == v = Str("") \/ v = Obj("{}")

\* C15 as stated: in the PUT body, description is the supplied value whenever
\* one was supplied, the empty string included; name, category and fields are
\* the supplied value when it is truthy, and the fetched value when the
\* supplied value is empty or false-y.
C15_OverridePerField ==
  \A i \in Slots :
    PutIssued(inv[i]) =>
      LET body == inv[i].reqs[2].obj
          S == Fetched(inv[i])
          p == inv[i].params
      IN /\ Field(body, "description") =
              (IF p["description"].t # "undefined" THEN p["description"]
               ELSE Field(S, "description"))
         /\ \A k \in {"name", "category", "fields"} :
              Field(body, k) =
                (IF Truthy(p[k]) /\ ~Empty(p[k]) THEN p[k] ELSE Field(S, k))

\* C15 as amended: description is the supplied value whenever one was supplied,
\* the empty string included; name, category and fields are the supplied value
\* exactly when it is truthy, which an empty object for fields is, and the
\* fetched value otherwise, so a supplied empty name or category is not
\* written while a supplied empty fields object is.
C15_OverrideWhenTruthy ==
  \A i \in Slots :
    PutIssued(inv[i]) =>
      LET body == inv[i].reqs[2].obj
          S == Fetched(inv[i])
          p == inv[i].params
      IN /\ Field(body, "description") =
              (IF p["description"].t # "undefined" THEN p["description"]
               ELSE Field(S, "description"))
         /\ \A k \in {"name", "category"} :
              Field(body, k) = (IF p[k].t = "string" /\ p[k].s # "" THEN p[k] ELSE Field(S, k))
         /\ Field(body, "fields") =
              (IF p["fields"].t = "object" THEN p["fields"] ELSE Field(S, "fields"))
         /\ \A k \in DOMAIN body \ CollectorKeys : body[k] = Field(S, k)

\* name and description were both supplied empty: the PUT kept the fetched name
\* and wrote the empty description
C15_Witness ==
  \E i \in Slots :
    /\ PutIssued(inv[i]) /\ inv[i].resps[1].hasCollector
    /\ inv[i].params["name"] = Str("") /\ inv[i].params["description"] = Str("")
    /\ inv[i].reqs[2].obj["name"] = inv[i].resps[1].collector["name"]
    /\ inv[i].reqs[2].obj["description"] = Str("")
    /\ inv[i].resps[1].collector["description"] = Str("d")

\* the PUT of invocation s was built from the GET of the same invocation: same
\* collector path, the token that GET returned, the merge over the body it returned
FromOwnGet(s) ==
  LET get == s.reqs[1]
      put == s.reqs[2]
      r == s.resps[1]
  IN /\ get.method = "GET" /\ put.method = "PUT" /\ put.path = get.path
     /\ r.kind = "ok"
     /\ put.hasIfMatch => put.ifMatch = r.etag /\ r.hasEtag
     /\ put.obj = MergeCollector(r.hasCollector, r.collector, s.params)

\* C16: over any interleaving of update_collector invocations, every PUT issued
\* carries an If-Match header, and its value and the merged base state are the
\* token and the body returned by the GET of the same invocation for the same
\* collector_id.
C16_TokenIsolation ==
  \A i \in Slots :
    PutIssued(inv[i]) =>
      /\ inv[i].reqs[2].hasIfMatch
      /\ FromOwnGet(inv[i])

\* What holds of every PUT: whatever token and base state it uses are those of
\* the GET of its own invocation, and it carries an If-Match header exactly
\* when that GET returned an entity tag.
PutUsesOwnGet ==
  \A i \in Slots :
    PutIssued(inv[i]) =>
      /\ FromOwnGet(inv[i])
      /\ inv[i].reqs[2].hasIfMatch <=> inv[i].resps[1].hasEtag

\* C17: every check_connection invocation issues one GET /v1/collectors and
\* ends with a synthesized {status, message} payload that never holds the
\* fetched list; status is "success" exactly when the GET succeeded, and when
\* it failed status is "error" and message is the normalizer's output for
\* that failure.
C17_CheckConnection ==
  \A i \in Slots :
    (inv[i].tool = "check_connection" /\ inv[i].ran) =>
      /\ inv[i].reqs = <<Req("GET", <<"v1", "collectors">>)>>
      /\ Done(inv[i]) =>
           LET o == inv[i].outcome
               r == inv[i].resps[1]
           IN /\ Len(inv[i].resps) = 1
              /\ o.kind = "return" /\ o.shape \in {"status", "statusjson"}
              /\ o.data = "" /\ (r.kind = "ok" => o.data # r.data)
              /\ o.status \in {"success", "error"}
              /\ o.status = "success" <=> r.kind = "ok"
              /\ r.kind = "ok" =>
                   o.message = "Connection to SumoLogic API successful" /\ ~HasDiag(o)
              /\ r.kind # "ok" =>
                   /\ o.message = "{handleApiError}"
                   /\ o.diag = HandleApiError(impl, AxiosError(r))
                   /\ o.diag.fmt = (IF r.kind = "http" THEN "API Error: {status} - {body}"
                                    ELSE "Error: {message}")
                   /\ r.kind = "http" => o.diag.status = r.status

\* the probe met a 500 and answered {status: "error"} with the normalized message
C17_Witness ==
  \E i \in Slots :
    /\ inv[i].tool = "check_connection" /\ inv[i].pc = "replied"
    /\ inv[i].outcome.status = "error" /\ inv[i].outcome.diag.status = 500
    /\ inv[i].outcome.diag.text = JsonStringify("{error:not found}")

\* C18: update_collector issues its PUT only after the GET of the same
\* invocation succeeded with a body holding a collector; when the GET failed
\* or its body held no collector, the invocation ends with an error and no
\* PUT, and it has not changed the remote collector.
C18_PutOnlyAfterCollector ==
  \A i \in Slots :
    (inv[i].tool = "update_collector" /\ inv[i].ran /\ Len(inv[i].resps) >= 1) =>
      LET r == inv[i].resps[1]
      IN /\ PutIssued(inv[i]) => (r.kind = "ok" /\ r.hasCollector)
         /\ (r.kind # "ok" \/ ~r.hasCollector) =>
              /\ Done(inv[i]) /\ ErrorSignalled(inv[i].outcome)
              /\ Len(inv[i].reqs) = 1 /\ ~inv[i].applied

\* What holds of the ordering: the PUT is issued only after the GET succeeded,
\* and only when the merge did not throw; a failed GET ends the invocation
\* with an error and no PUT.
PutOnlyAfterGet ==
  \A i \in Slots :
    (inv[i].tool = "update_collector" /\ inv[i].ran /\ Len(inv[i].resps) >= 1) =>
      LET r == inv[i].resps[1]
      IN /\ PutIssued(inv[i]) <=>
              (r.kind = "ok" /\ (r.hasCollector \/ AllFourSupplied(inv[i].params)))
         /\ ~PutIssued(inv[i]) => (Done(inv[i]) /\ ErrorSignalled(inv[i].outcome))

\* the invocation failed: refused, ended with the error signal, or answered {status: "error"}
Unsuccessful(s) == s.rejected \/ ErrorSignalled(s.outcome) \/ s.outcome.status = "error"

\* the two invocations agree at the remote interface
SameAtRemote(a, b) ==
  /\ a.reqs = b.reqs /\ a.resps = b.resps
  /\ Pending(a) <=> Pending(b)
  /\ (~Pending(a) /\ ~Pending(b)) => (Unsuccessful(a) <=> Unsuccessful(b))

\* C19 as stated: for every tool, every parameter assignment and every
\* sequence of responses, index.ts and README.md issue the same sequence of
\* requests (method, path, query, body, If-Match) and agree on whether the
\* invocation succeeded or failed.
C19_Equivalent == SameAtRemote(inv[1], inv[2])

\* C19 as amended: the two agree on every call that both declared schemas
\* accept or both refuse; they part only on a fields object with a member that
\* is not a string, which README.md (z.record(z.string())) refuses before any
\* request while index.ts (type: 'object') runs the handler.
C19_EquivalentOnAccepted ==
  IF inv[1].rejected = inv[2].rejected
    THEN SameAtRemote(inv[1], inv[2])
    ELSE /\ inv[2].rejected /\ inv[2].reqs = <<>> /\ inv[1].ran
         /\ inv[1].params["fields"] = Obj("{f:1}")
         /\ inv[1].tool \in {"create_hosted_collector", "update_collector", "create_http_source"}

\* both implementations issued the same GET and the same conditional PUT and
\* both ended with the 412 error
C19_Witness ==
  /\ \A i \in Slots : inv[i].tool = "update_collector" /\ inv[i].pc = "replied"
                         /\ Len(inv[i].reqs) = 2 /\ Saw412(inv[i]) /\ inv[i].replyError
  /\ inv[1].reqs = inv[2].reqs /\ inv[1].reqs[2].hasIfMatch
  /\ inv[1].impl = "index" /\ inv[2].impl = "readme"
  /\ inv[1].params["name"] = Str("") /\ inv[1].params["fields"] = Obj("{}")

====
